---- MODULE Spec2Model ----
(***************************************************************************)
(* Model of the pull-request enrichment pipeline of ghi:                   *)
(*   pkg/github/github.go   PRCollection (FetchIssues,                     *)
(*                          EnrichWithPullRequests, EnrichWithReviews,     *)
(*                          FilterDrafts) and its helpers                  *)
(*   cmd/pullrequest.go     prCmd.Run (flag checks, search with retry,     *)
(*                          the pipeline in order)                         *)
(* Two specifications share the collection's operations:                   *)
(*   Spec     one run of the pr command (prCmd.Run)                        *)
(*   SpecApi  a caller that invokes the exported PRCollection methods in   *)
(*            any order, any number of times, with a cancellable context   *)
(* The remote API is the environment: every attempt of a call returns      *)
(* success, a rate-limit error or some other error, chosen freely.         *)
(***************************************************************************)
EXTENDS Integers, Sequences, FiniteSets, TLC

\* ------------------------------------------------------------------ bounds
MaxIssues == 2      \* longest search result list handed to FetchIssues
MaxItems  == 2      \* SpecApi: FetchIssues is not called beyond this length
MaxCalls  == 3      \* SpecApi: number of method calls on one collection

\* ------------------------------------------------------- remote API (data)
Numbers == {1, 2}

\* Issue.User.Login of the issue with the given number ("" models nil).
AuthorOf(n) == IF n = 1 THEN "bob" ELSE "Alice"

Issue(n) == [Number |-> n, Login |-> AuthorOf(n)]

RECURSIVE SeqsUpTo(_, _)
SeqsUpTo(S, n) ==
    IF n = 0 THEN {<<>>}
    ELSE LET shorter == SeqsUpTo(S, n - 1)
         IN  shorter \cup {Append(s, x) : s \in {t \in shorter : Len(t) = n - 1}, x \in S}

\* What Search.Issues may return: any list of issues, repeats included.
IssueLists == SeqsUpTo({Issue(n) : n \in Numbers}, MaxIssues)

Rev(login, state) == [Login |-> login, State |-> state]

\* What PullRequests.ListReviews may return for a pull request.
\* State "nil" models a review whose State pointer is nil.
ServerReviews ==
    { <<>>,
      <<Rev("Alice", "APPROVED"), Rev("bob", "APPROVED")>>,
      <<Rev("Alice", "CHANGES_REQUESTED"), Rev("bob", "COMMENTED"), Rev("Carol", "nil")>> }

\* The reviewer lists given to EnrichWithReviews.
ReviewerArgs == { <<>>, <<"Alice">> }

\* Error kinds of one attempt: "nil" is success.
ErrKinds == {"nil", "ratelimit", "other"}

\* A call issued on a cancelled context never succeeds.
ErrKindsWhen(done) == IF done THEN {"ratelimit", "other"} ELSE ErrKinds

\* ---------------------------------------------------------------- helpers
\* strings.ToLower on the logins of the model.
ToLower(s) ==
    CASE s = "Alice" -> "alice"
      [] s = "Carol" -> "carol"
      [] OTHER       -> s

lowercase(reviewers) == [k \in 1..Len(reviewers) |-> ToLower(reviewers[k])]

contains(slice, item) == \E k \in 1..Len(slice) : slice[k] = item

getPRAuthor(prData) == prData.Issue.Login

getReviewerLogin(review) == review.Login

\* Mutant: any review that has a state counts.
isApprovedOrCommented_AnyState(review) == review.State # "nil"

isApprovedOrCommented(review) ==
    /\ review.State # "nil"
    /\ (review.State = "APPROVED" \/ review.State = "COMMENTED")

\* Mutant: the state is compared with strings.EqualFold.
isApproved_IgnoreCase(review) ==
    /\ review.State # "nil"
    /\ review.State \in {"APPROVED", "approved"}

isApproved(review) ==
    /\ review.State # "nil"
    /\ review.State = "APPROVED"

\* *github.PullRequest: the nil pointer, and a fetched detail.
NilPR == [IsNil |-> TRUE, Draft |-> FALSE]

PR(draft) == [IsNil |-> FALSE, Draft |-> draft]

\* PullRequest.GetDraft: false on a nil receiver or a nil Draft field.
GetDraft(pr) == ~pr.IsNil /\ pr.Draft

\* Mutant: a fresh record counts as a draft until its detail is fetched.
NewRecord_DraftByDefault(issue) ==
    [ Issue           |-> issue,
      PullRequest     |-> NilPR,
      Reviews         |-> <<>>,
      UniqueReviewers |-> {},
      ApprovalCount   |-> 0,
      ReviewerStatus  |-> "",
      IsDraft         |-> TRUE,
      DraftStatus     |-> "" ]

\* A fresh record, as FetchIssues builds it.
NewRecord(issue) ==
    [ Issue           |-> issue,
      PullRequest     |-> NilPR,
      Reviews         |-> <<>>,
      UniqueReviewers |-> {},
      ApprovalCount   |-> 0,
      ReviewerStatus  |-> "",
      IsDraft         |-> FALSE,
      DraftStatus     |-> "" ]

\* ---------------------------------------------------- rate-limit handling
MaxAttempts == 3

\* Mutant: the type assertion names the value type, which never matches.
isRateLimitError_ValueType(e) == FALSE

isRateLimitError(e) == e = "ratelimit"

\* Mutant: the sleep sits inside the "if c.Debug" block.
handleRateLimit_SleepInDebug(e) ==
    [ slept |-> FALSE, retry |-> isRateLimitError(e) ]

\* Mutant: every error is taken for a rate-limit error.
handleRateLimit_AnyError(e) ==
    [ slept |-> e # "nil", retry |-> e # "nil" ]

\* handleRateLimit: sleeps 5 seconds and returns true on a rate-limit error.
handleRateLimit(e) ==
    [ slept |-> isRateLimitError(e), retry |-> isRateLimitError(e) ]

\* Mutant: "c.handleRateLimit(err) && attempts < 2", the operands swapped.
RetryStep_SleepFirst(att, e) ==
    IF e = "nil" THEN [next |-> "break", slept |-> FALSE]
    ELSE LET h == handleRateLimit(e)
         IN  [next |-> IF h.retry /\ att < 2 THEN "continue" ELSE "break",
              slept |-> h.slept]

\* The body of the retry loop after one attempt returned e.
RetryStep(att, e) ==
    IF e = "nil" THEN [next |-> "break", slept |-> FALSE]
    ELSE IF att < 2
         THEN LET h == handleRateLimit(e)
              IN  [next |-> IF h.retry THEN "continue" ELSE "break", slept |-> h.slept]
         ELSE [next |-> "break", slept |-> FALSE]

\* ------------------------------------------------- per-record enrichment
\* EnrichWithPullRequests, after a successful fetch of pr.
ApplyDetail(prData, pr) ==
    [ prData EXCEPT !.PullRequest = pr,
                    !.IsDraft     = GetDraft(pr),
                    !.DraftStatus = IF GetDraft(pr) THEN "[X]" ELSE "[ ]" ]

\* Mutant: the statement assigns the neighbouring field.
ResetReviewerStatus_WrongField(prData) == [prData EXCEPT !.DraftStatus = "[ ]"]

\* Mutant: the statement assigns the checked box.
ResetReviewerStatus_Checked(prData) == [prData EXCEPT !.ReviewerStatus = "[X]"]

\* EnrichWithReviews, first statement of the loop body.
ResetReviewerStatus(prData) == [prData EXCEPT !.ReviewerStatus = "[ ]"]

\* Mutant: an approval by the author of the pull request is not counted.
ProcessReview_NoSelfApproval(prData, review, lrs, prAuthor) ==
    LET reviewer == ToLower(getReviewerLogin(review))
        matched  == Len(lrs) > 0 /\ contains(lrs, reviewer) /\ isApprovedOrCommented(review)
        unique   == reviewer # "" /\ reviewer # prAuthor /\ isApprovedOrCommented(review)
    IN  [ prData EXCEPT
            !.ReviewerStatus  = IF matched THEN "[X]" ELSE @,
            !.UniqueReviewers = IF unique THEN @ \cup {reviewer} ELSE @,
            !.ApprovalCount   = IF isApproved(review) /\ reviewer # prAuthor
                                THEN @ + 1 ELSE @ ]

\* EnrichWithReviews, the body of the loop over the fetched reviews.
ProcessReview(prData, review, lrs, prAuthor) ==
    LET reviewer == ToLower(getReviewerLogin(review))
        matched  == Len(lrs) > 0 /\ contains(lrs, reviewer) /\ isApprovedOrCommented(review)
        unique   == reviewer # "" /\ reviewer # prAuthor /\ isApprovedOrCommented(review)
    IN  [ prData EXCEPT
            !.ReviewerStatus  = IF matched THEN "[X]" ELSE @,
            !.UniqueReviewers = IF unique THEN @ \cup {reviewer} ELSE @,
            !.ApprovalCount   = IF isApproved(review) THEN @ + 1 ELSE @ ]

RECURSIVE ProcessReviews(_, _, _, _, _)
ProcessReviews(prData, reviews, lrs, prAuthor, k) ==
    IF k > Len(reviews) THEN prData
    ELSE ProcessReviews(ProcessReview(prData, reviews[k], lrs, prAuthor),
                        reviews, lrs, prAuthor, k + 1)

\* Mutant: prAuthor is taken without strings.ToLower.
ApplyReviews_AuthorNotLowered(prData, reviews, lrs) ==
    ProcessReviews([prData EXCEPT !.Reviews = reviews], reviews, lrs,
                   getPRAuthor(prData), 1)

\* EnrichWithReviews, after a successful fetch of reviews.
ApplyReviews(prData, reviews, lrs) ==
    ProcessReviews([prData EXCEPT !.Reviews = reviews], reviews, lrs,
                   ToLower(getPRAuthor(prData)), 1)

\* Mutant: the test in the loop is inverted, "if prData.IsDraft".
FilterItems_KeepsDrafts(items, option) ==
    IF option # "hide" THEN items
    ELSE SelectSeq(items, LAMBDA prData : prData.IsDraft)

\* Mutant: the early return on the draft option is missing.
FilterItems_AlwaysFilters(items, option) ==
    SelectSeq(items, LAMBDA prData : ~prData.IsDraft)

\* Mutant: the loop ranges over c.Items[1:].
FilterItems_SkipsFirst(items, option) ==
    IF option # "hide" \/ items = <<>> THEN items
    ELSE SelectSeq(Tail(items), LAMBDA prData : ~prData.IsDraft)

\* FilterDrafts on the Items slice.
FilterItems(items, option) ==
    IF option # "hide" THEN items
    ELSE SelectSeq(items, LAMBDA prData : ~prData.IsDraft)

\* ------------------------------------------------------------------ state
VARIABLES
    pc,                 \* "start", "search", "idle", "EnrichWithPullRequests",
                        \* "EnrichWithReviews", "exit"
    repo,               \* the --repo flag of the pr command
    Items,              \* PRCollection.Items
    DraftOption,        \* PRCollection.DraftOption ("" when never set)
    ctxDone,            \* PRCollection.Context has been cancelled
    i,                  \* index of the record the running stage is at
    attempts,           \* the loop variable of the retry loop
    err,                \* the err variable of the running stage or search
    lowercaseReviewers, \* EnrichWithReviews: the lower-cased reviewer list
    result,             \* prCmd.Run: result.Issues of the search
    outcome,            \* prCmd.Run: what the search loop reported
    history,            \* the PRCollection methods called so far, in order
    \* ---- observation only (never read by the operations)
    trace,              \* events of the latest wrapped call: error kinds, "sleep"
    traceOf,            \* which call trace belongs to: [stage, idx]
    callDone,           \* the latest wrapped call has finished
    resp,               \* payload of the latest successful attempt
    before,             \* Items when the running or latest stage started
    passStatus,         \* per record, its fetch in the running or latest stage
    revFetch,           \* per record, its latest review fetch: none/ok/failed
    cancelRec,          \* <<Len(history), i>> when the context was cancelled
    lateCall,           \* an attempt was issued, in the stage that was running
                        \* at cancellation, for a record after the one it was at
    \* ---- PRDisplay
    ShowReviewer,       \* PRDisplay.Options.ShowReviewer
    rendered,           \* RenderTable has returned
    header,             \* the header row given to the table writer
    rows,               \* the data rows given to the table writer, in order
    createdAgo,         \* per record, the age of Issue.CreatedAt at rendering
    \* ---- ui.WithSpinner
    mpc,                \* WithSpinner: "idle", "Run", "select", "returned"
    wpc,                \* its goroutine: "idle", "fn", "Send", "done<-", "end"
    prog,               \* the tea.Program: its state, a Quit message taken by
                        \* its loop, what ended it, where the goroutine was then
    spinCtxDone,        \* the ctx given to WithSpinner has been cancelled
    done,               \* the buffer of the done channel
    fnResult,           \* what fn returned
    returned,           \* what WithSpinner returned
    \* ---- the review command and the reviews table
    reviewsTable,       \* the rows of the reviews table, in insertion order
    reviewRan,          \* reviewCmd.Run has returned
    queried,            \* reviewCmd.Run: what GetReviewsByDateRange returned
    processedPRs,       \* reviewCmd.Run: the keys of the map processedPRs
    reviewRows,         \* reviewCmd.Run: the rows appended to the table
    \* ---- auth set and loadEnvFile
    envFile,            \* the lines of ~/.ghi/.env
    given,              \* per key, the value of the latest auth set that gave one
    started,            \* a later process has started and run loadEnvFile
    osEnv,              \* the environment that process was started with
    procEnv             \* its environment after loadEnvFile

dispVars  == << ShowReviewer, rendered, header, rows, createdAgo >>

\* The state of the parts of the program other than the pull-request pipeline.
spinVars  == << mpc, wpc, prog, spinCtxDone, done, fnResult, returned >>

pipeVars  == << pc, repo, Items, DraftOption, ctxDone, i, attempts, err,
                lowercaseReviewers, result, outcome, history,
                trace, traceOf, callDone, resp, before, passStatus, revFetch,
                cancelRec, lateCall >>

revVars   == << reviewsTable, reviewRan, queried, processedPRs, reviewRows >>

authVars  == << envFile, given, started, osEnv, procEnv >>

otherVars == << dispVars, spinVars, revVars, authVars >>

vars == << pc, repo, Items, DraftOption, ctxDone, i, attempts, err,
           lowercaseReviewers, result, outcome, history,
           trace, traceOf, callDone, resp, before, passStatus, revFetch,
           cancelRec, lateCall, otherVars >>

collVars  == << Items, DraftOption, lowercaseReviewers >>
cmdVars   == << repo, result, outcome >>
loopVars  == << i, attempts, err >>
callObs   == << trace, traceOf, callDone, resp >>
stageObs  == << before, passStatus, revFetch >>
cancelObs == << ctxDone, cancelRec, lateCall >>

Outcome(how, text, cause) == [how |-> how, text |-> text, cause |-> cause]

NoOutcome == Outcome("none", "", "nil")

NoResp == [pr |-> NilPR, reviews |-> <<>>]

NoneSeq(n) == [k \in 1..n |-> "none"]

\* No wrapped call has been observed in the method being entered.
ForgetCall ==
    /\ trace' = <<>> /\ traceOf' = [stage |-> "none", idx |-> 0]
    /\ callDone' = FALSE /\ resp' = NoResp

\* Nothing has been rendered.
DisplayIdle ==
    /\ ShowReviewer = FALSE /\ rendered = FALSE
    /\ header = <<>> /\ rows = <<>> /\ createdAgo = <<>>

\* A result of fn, or of WithSpinner: a value and an error.
Result(value, e) == [value |-> value, err |-> e]

NoResult == Result("none", "none")

\* A tea.Program made by NewProgram: not started, nothing sent to it.
NewProgram == [state |-> "new", quit |-> FALSE, endedBy |-> "none", workerAt |-> "none"]

\* WithSpinner has not been called.
SpinnerIdle ==
    /\ mpc = "idle" /\ wpc = "idle" /\ prog = NewProgram
    /\ spinCtxDone = FALSE /\ done = <<>>
    /\ fnResult = NoResult /\ returned = NoResult

\* No review has been logged and the review command has not run.
ReviewIdle ==
    /\ reviewsTable = <<>> /\ reviewRan = FALSE
    /\ queried = <<>> /\ processedPRs = {} /\ reviewRows = <<>>

\* The keys auth set writes, and an environment in which none is set.
EnvKeys == {"GHI_DB_URL", "GHI_AUTH_TOKEN", "GHI_USERNAME"}

NoEnv == [key \in EnvKeys |-> <<>>]

\* ~/.ghi/.env does not exist and no process has been started.
AuthIdle ==
    /\ envFile = <<>> /\ given = NoEnv
    /\ started = FALSE /\ osEnv = NoEnv /\ procEnv = NoEnv

\* The other parts of the program have not run.
InitOther == DisplayIdle /\ SpinnerIdle /\ ReviewIdle /\ AuthIdle

\* NewPRCollection: an empty collection; nothing is running.
InitCollection ==
    /\ Items = <<>>
    /\ ctxDone = FALSE
    /\ i = 0 /\ attempts = 0 /\ err = "nil"
    /\ lowercaseReviewers = <<>>
    /\ result = <<>> /\ outcome = NoOutcome
    /\ history = <<>>
    /\ trace = <<>> /\ traceOf = [stage |-> "none", idx |-> 0]
    /\ callDone = FALSE /\ resp = NoResp
    /\ before = <<>> /\ passStatus = <<>> /\ revFetch = <<>>
    /\ cancelRec = <<0, 0>> /\ lateCall = FALSE

\* ------------------------------------------------- the collection's methods
\* Mutant: each new record is put in front of the slice.
RECURSIVE FetchIssuesItems_Prepends(_, _)
FetchIssuesItems_Prepends(items, issues) ==
    IF issues = <<>> THEN items
    ELSE FetchIssuesItems_Prepends(<<NewRecord(Head(issues))>> \o items, Tail(issues))

\* FetchIssues(issues): appends one fresh record per issue.
FetchIssuesItems(items, issues) ==
    items \o [k \in 1..Len(issues) |-> NewRecord(issues[k])]

FetchIssues(issues) ==
    /\ pc = "idle"
    /\ Items' = FetchIssuesItems(Items, issues)
    /\ history' = Append(history, "FetchIssues")
    /\ before' = Items
    /\ passStatus' = NoneSeq(Len(Items'))
    /\ revFetch' = revFetch \o NoneSeq(Len(issues))
    /\ ForgetCall
    /\ UNCHANGED << otherVars, pc, DraftOption, lowercaseReviewers, cmdVars, loopVars,
                    cancelObs >>

\* A stage whose loop runs over Items: entering the method.
EnterStage(stage) ==
    /\ pc = "idle"
    /\ history' = Append(history, stage)
    /\ before' = Items
    /\ passStatus' = NoneSeq(Len(Items))
    /\ i' = 1 /\ attempts' = 0 /\ err' = "nil"
    /\ pc' = IF Len(Items) = 0 THEN "idle" ELSE stage
    /\ ForgetCall
    /\ UNCHANGED << otherVars, Items, DraftOption, cmdVars, revFetch, cancelObs >>

CallEnrichWithPullRequests ==
    /\ EnterStage("EnrichWithPullRequests")
    /\ UNCHANGED lowercaseReviewers

CallEnrichWithReviews(reviewers) ==
    /\ EnterStage("EnrichWithReviews")
    /\ lowercaseReviewers' = lowercase(reviewers)

\* What one attempt of a wrapped call leaves observable.
Observe(stage, e, step, field, payload) ==
    /\ trace' = (IF attempts = 0 THEN <<>> ELSE trace)
                   \o <<e>> \o (IF step.slept THEN <<"sleep">> ELSE <<>>)
    /\ traceOf' = [stage |-> stage, idx |-> i]
    /\ resp' = IF e = "nil" THEN [NoResp EXCEPT ![field] = payload] ELSE NoResp
    /\ lateCall' = (lateCall \/ (ctxDone /\ cancelRec[1] = Len(history) /\ i > cancelRec[2]))
    /\ UNCHANGED << ctxDone, cancelRec >>

\* The retry loop goes round again: attempts++ and the loop condition.
LoopsAgain(step) == step.next = "continue" /\ attempts + 1 < MaxAttempts

\* After the retry loop of record i: the rest of the loop body ran and the
\* outer loop moves to the next record, or the method returns.
NextRecord(stage) ==
    /\ i' = i + 1
    /\ attempts' = 0
    /\ pc' = IF i + 1 > Len(Items) THEN "idle" ELSE stage

\* Mutant: "if err != nil { return c }" in place of "continue".
EnrichWithPullRequestsAttempt_ReturnOnError ==
    /\ pc = "EnrichWithPullRequests"
    /\ \E e \in ErrKindsWhen(ctxDone), draft \in BOOLEAN :
         LET step == RetryStep(attempts, e)
             pr   == PR(draft)
         IN  /\ err' = e
             /\ Observe("EnrichWithPullRequests", e, step, "pr", pr)
             /\ IF LoopsAgain(step)
                THEN /\ attempts' = attempts + 1
                     /\ callDone' = FALSE
                     /\ UNCHANGED << pc, i, Items, passStatus >>
                ELSE /\ callDone' = TRUE
                     /\ i' = i + 1
                     /\ attempts' = 0
                     /\ pc' = IF e # "nil" \/ i + 1 > Len(Items) THEN "idle"
                              ELSE "EnrichWithPullRequests"
                     /\ Items' = IF e # "nil" THEN Items
                                 ELSE [Items EXCEPT ![i] = ApplyDetail(@, pr)]
                     /\ passStatus' = [passStatus EXCEPT
                                         ![i] = IF e # "nil" THEN "failed" ELSE "ok"]
    /\ UNCHANGED << otherVars, DraftOption, lowercaseReviewers, cmdVars, history, before,
                    revFetch >>

\* EnrichWithPullRequests: one PullRequests.Get for record i and what follows.
EnrichWithPullRequestsAttempt ==
    /\ pc = "EnrichWithPullRequests"
    /\ \E e \in ErrKindsWhen(ctxDone), draft \in BOOLEAN :
         LET step == RetryStep(attempts, e)
             pr   == PR(draft)
         IN  /\ err' = e
             /\ Observe("EnrichWithPullRequests", e, step, "pr", pr)
             /\ IF LoopsAgain(step)
                THEN /\ attempts' = attempts + 1
                     /\ callDone' = FALSE
                     /\ UNCHANGED << pc, i, Items, passStatus >>
                ELSE /\ callDone' = TRUE
                     /\ NextRecord("EnrichWithPullRequests")
                     /\ Items' = IF e # "nil" THEN Items
                                 ELSE [Items EXCEPT ![i] = ApplyDetail(@, pr)]
                     /\ passStatus' = [passStatus EXCEPT
                                         ![i] = IF e # "nil" THEN "failed" ELSE "ok"]
    /\ UNCHANGED << otherVars, DraftOption, lowercaseReviewers, cmdVars, history, before,
                    revFetch >>

\* EnrichWithReviews: one PullRequests.ListReviews for record i and what follows.
EnrichWithReviewsAttempt ==
    /\ pc = "EnrichWithReviews"
    /\ \E e \in ErrKindsWhen(ctxDone), reviews \in ServerReviews :
         LET step  == RetryStep(attempts, e)
             items == IF attempts = 0
                      THEN [Items EXCEPT ![i] = ResetReviewerStatus(@)]
                      ELSE Items
         IN  /\ err' = e
             /\ Observe("EnrichWithReviews", e, step, "reviews", reviews)
             /\ IF LoopsAgain(step)
                THEN /\ attempts' = attempts + 1
                     /\ callDone' = FALSE
                     /\ Items' = items
                     /\ UNCHANGED << pc, i, passStatus, revFetch >>
                ELSE /\ callDone' = TRUE
                     /\ NextRecord("EnrichWithReviews")
                     /\ Items' = IF e # "nil" THEN items
                                 ELSE [items EXCEPT
                                         ![i] = ApplyReviews(@, reviews, lowercaseReviewers)]
                     /\ passStatus' = [passStatus EXCEPT
                                         ![i] = IF e # "nil" THEN "failed" ELSE "ok"]
                     /\ revFetch' = [revFetch EXCEPT
                                         ![i] = IF e # "nil" THEN "failed" ELSE "ok"]
    /\ UNCHANGED << otherVars, DraftOption, lowercaseReviewers, cmdVars, history, before >>

\* The positions FilterDrafts keeps.
Kept(items, option) ==
    {k \in 1..Len(items) : option # "hide" \/ ~items[k].IsDraft}

RECURSIVE KeepAt(_, _, _)
KeepAt(s, keep, k) ==
    IF k > Len(s) THEN <<>>
    ELSE (IF k \in keep THEN <<s[k]>> ELSE <<>>) \o KeepAt(s, keep, k + 1)

\* FilterDrafts()
FilterDrafts ==
    /\ pc = "idle"
    /\ Items' = FilterItems(Items, DraftOption)
    /\ history' = Append(history, "FilterDrafts")
    /\ before' = Items
    /\ passStatus' = NoneSeq(Len(Items'))
    /\ revFetch' = KeepAt(revFetch, Kept(Items, DraftOption), 1)
    /\ ForgetCall
    /\ UNCHANGED << otherVars, pc, DraftOption, lowercaseReviewers, cmdVars, loopVars,
                    cancelObs >>

\* ------------------------------------------------------ the pr command
\* The --repo values tried, and strings.Split(repo, "/") on them.
Repos == {"", "owner", "owner/repo", "a/b/c", "owner/"}

\* strings.Split(r, "/")
RepoParts(r) ==
    CASE r = "owner/repo" -> <<"owner", "repo">>
      [] r = "a/b/c"      -> <<"a", "b", "c">>
      [] r = "owner/"     -> <<"owner", "">>
      [] OTHER            -> <<r>>

SplitCount(r) == Len(RepoParts(r))

\* The values the --draft flag takes; its default is "hide".
DraftFlags == {"hide", "show"}

\* prCmd.Run up to the creation of the client: the checks of --repo.
RunCheckRepo ==
    /\ pc = "start"
    /\ IF repo = ""
       THEN /\ pc' = "exit"
            /\ outcome' = Outcome("fatal", "The --repo flag is required", "nil")
       ELSE IF SplitCount(repo) # 2
       THEN /\ pc' = "exit"
            /\ outcome' = Outcome("fatal", "Invalid repository format", "nil")
       ELSE /\ pc' = "search"
            /\ outcome' = outcome
    /\ UNCHANGED << otherVars, repo, result, collVars, loopVars, history, callObs,
                    stageObs, cancelObs >>

\* cmd/pullrequest.go: the body of the search loop after an attempt returned e.
SearchStepRun(att, e) ==
    IF e = "nil" THEN [next |-> "break", slept |-> FALSE, out |-> Outcome("ok", "", "nil")]
    ELSE IF isRateLimitError(e)
         THEN IF att < 2
              THEN [next |-> "continue", slept |-> TRUE, out |-> NoOutcome]
              ELSE [next |-> "exit", slept |-> FALSE,
                    out |-> Outcome("fatal", "GitHub API rate limit exceeded", "nil")]
         ELSE [next |-> "exit", slept |-> FALSE,
               out |-> Outcome("fatal", "Error searching pull requests: %v", e)]

\* The later revision: scanPRs returns errors, and its caller logs them fatally.
scanPRs(att, e) ==
    IF e = "nil" THEN [next |-> "break", slept |-> FALSE, out |-> Outcome("ok", "", "nil")]
    ELSE IF isRateLimitError(e)
         THEN IF att < 2
              THEN [next |-> "continue", slept |-> TRUE, out |-> NoOutcome]
              ELSE [next |-> "exit", slept |-> FALSE,
                    out |-> Outcome("error", "GitHub API rate limit exceeded", "nil")]
         ELSE [next |-> "exit", slept |-> FALSE,
               out |-> Outcome("error", "error searching pull requests: %w", e)]

\* One Search.Issues attempt and what follows; on success the collection is
\* created with the --draft flag's value.
SearchAttempt ==
    /\ pc = "search"
    /\ \E e \in ErrKinds, issues \in IssueLists, flag \in DraftFlags,
          revision \in {"Run", "scanPRs"} :
         LET step == IF revision = "Run" THEN SearchStepRun(attempts, e)
                     ELSE scanPRs(attempts, e)
         IN  /\ err' = e
             /\ trace' = (IF attempts = 0 THEN <<>> ELSE trace)
                            \o <<e>> \o (IF step.slept THEN <<"sleep">> ELSE <<>>)
             /\ traceOf' = [stage |-> "search", idx |-> 0]
             /\ IF step.next = "continue" /\ attempts + 1 < MaxAttempts
                THEN /\ attempts' = attempts + 1
                     /\ callDone' = FALSE
                     /\ UNCHANGED << pc, result, outcome, DraftOption >>
                ELSE /\ callDone' = TRUE
                     /\ attempts' = 0
                     /\ outcome' = IF step.next = "continue"
                                   THEN Outcome("error", "max retries exceeded", "nil")
                                   ELSE step.out
                     /\ pc' = IF step.next = "break" THEN "idle" ELSE "exit"
                     /\ result' = IF step.next = "break" THEN issues ELSE result
                     /\ DraftOption' = IF step.next = "break" THEN flag ELSE DraftOption
    /\ UNCHANGED << otherVars, repo, Items, lowercaseReviewers, i, history, resp,
                    stageObs, cancelObs >>

\* The pipeline of prCmd.Run, one method after the other.
RunFetchIssues ==
    /\ history = <<>>
    /\ FetchIssues(result)

RunEnrichWithPullRequests ==
    /\ history = <<"FetchIssues">>
    /\ CallEnrichWithPullRequests

RunEnrichWithReviews ==
    /\ history = <<"FetchIssues", "EnrichWithPullRequests">>
    /\ \E reviewers \in ReviewerArgs : CallEnrichWithReviews(lowercase(reviewers))

\* Mutant: FilterDrafts() is called one line earlier, before EnrichWithReviews.
RunFilterDrafts_BeforeReviews ==
    /\ history = <<"FetchIssues", "EnrichWithPullRequests">>
    /\ FilterDrafts

RunFilterDrafts ==
    /\ history = <<"FetchIssues", "EnrichWithPullRequests", "EnrichWithReviews">>
    /\ FilterDrafts

Init ==
    /\ pc = "start"
    /\ repo \in Repos
    /\ DraftOption = ""
    /\ InitCollection
    /\ InitOther

Next ==
    \/ RunCheckRepo
    \/ SearchAttempt
    \/ RunFetchIssues
    \/ RunEnrichWithPullRequests
    \/ EnrichWithPullRequestsAttempt
    \/ RunEnrichWithReviews
    \/ EnrichWithReviewsAttempt
    \/ RunFilterDrafts

Spec == Init /\ [][Next]_vars

\* --------------------------------------- any caller of the collection
\* NewPRCollection, with or without WithDraftOption.
InitApi ==
    /\ pc = "idle"
    /\ repo = "owner/repo"
    /\ DraftOption \in {""} \cup DraftFlags
    /\ InitCollection
    /\ InitOther

MoreCalls == Len(history) < MaxCalls

ApiFetchIssues ==
    /\ MoreCalls
    /\ \E issues \in IssueLists :
         /\ Len(Items) + Len(issues) <= MaxItems
         /\ FetchIssues(issues)

ApiEnrichWithPullRequests == MoreCalls /\ CallEnrichWithPullRequests

ApiEnrichWithReviews ==
    /\ MoreCalls
    /\ \E reviewers \in ReviewerArgs : CallEnrichWithReviews(reviewers)

ApiFilterDrafts == MoreCalls /\ FilterDrafts

\* The caller cancels the collection's context while a stage is iterating.
Cancel ==
    /\ ~ctxDone
    /\ pc \in {"EnrichWithPullRequests", "EnrichWithReviews"}
    /\ ctxDone' = TRUE
    /\ cancelRec' = <<Len(history), i>>
    /\ UNCHANGED << otherVars, pc, collVars, cmdVars, loopVars, history, callObs, stageObs,
                    lateCall >>

NextApi ==
    \/ ApiFetchIssues
    \/ ApiEnrichWithPullRequests
    \/ EnrichWithPullRequestsAttempt
    \/ ApiEnrichWithReviews
    \/ EnrichWithReviewsAttempt
    \/ ApiFilterDrafts
    \/ Cancel

SpecApi == InitApi /\ [][NextApi]_vars

\* ------------------------------------------- FilterDrafts, called again
\* The records a collection can hold after FetchIssues and
\* EnrichWithPullRequests: the detail fetch failed, or returned a pull request
\* that is or is not a draft.
DetailedRecords ==
    {NewRecord(Issue(n)) : n \in Numbers}
        \cup {ApplyDetail(NewRecord(Issue(n)), PR(d)) : n \in Numbers, d \in BOOLEAN}

MaxFilters == 2

\* A collection made by NewPRCollection, with or without WithDraftOption,
\* after FetchIssues and EnrichWithPullRequests have returned.
InitFilter ==
    /\ pc = "idle"
    /\ repo = "owner/repo"
    /\ DraftOption \in {""} \cup DraftFlags
    /\ Items \in SeqsUpTo(DetailedRecords, MaxItems)
    /\ ctxDone = FALSE /\ i = 0 /\ attempts = 0 /\ err = "nil"
    /\ lowercaseReviewers = <<>> /\ result = <<>> /\ outcome = NoOutcome
    /\ history = <<"FetchIssues", "EnrichWithPullRequests">>
    /\ trace = <<>> /\ traceOf = [stage |-> "none", idx |-> 0]
    /\ callDone = FALSE /\ resp = NoResp
    /\ before = <<>>
    /\ passStatus = NoneSeq(Len(Items)) /\ revFetch = NoneSeq(Len(Items))
    /\ cancelRec = <<0, 0>> /\ lateCall = FALSE
    /\ InitOther

FilterDraftsAgain ==
    /\ Len(history) < 2 + MaxFilters
    /\ FilterDrafts

NextFilter == FilterDraftsAgain

SpecFilter == InitFilter /\ [][NextFilter]_vars

\* --------------------------- the review loop, one more review at a time
\* The reviews a list may hold: the login in either case or missing (""),
\* the state one of the platform's, a differently-cased one, or nil.
ReviewLogins == {"Alice", "alice", "bob", ""}

ReviewStates == {"APPROVED", "COMMENTED", "CHANGES_REQUESTED", "approved", "nil"}

ReviewSet == {Rev(l, s) : l \in ReviewLogins, s \in ReviewStates}

MaxReviews == 2

\* One pass of the loop body of EnrichWithReviews over a fresh record whose
\* review fetch returned reviews.
EnrichRecord(issue, reviews, lrs) ==
    ApplyReviews(ResetReviewerStatus(NewRecord(issue)), reviews, lrs)

\* One record, enriched with an empty review list.
InitFn ==
    /\ pc = "idle"
    /\ repo = "owner/repo"
    /\ DraftOption = ""
    /\ lowercaseReviewers \in {lowercase(r) : r \in ReviewerArgs}
    /\ \E n \in Numbers : Items = <<EnrichRecord(Issue(n), <<>>, lowercaseReviewers)>>
    /\ ctxDone = FALSE /\ i = 0 /\ attempts = 0 /\ err = "nil"
    /\ result = <<>> /\ outcome = NoOutcome
    /\ history = <<"FetchIssues", "EnrichWithReviews">>
    /\ trace = <<>> /\ traceOf = [stage |-> "none", idx |-> 0]
    /\ callDone = FALSE /\ resp = NoResp
    /\ before = <<>>
    /\ passStatus = <<"none">> /\ revFetch = <<"none">>
    /\ cancelRec = <<0, 0>> /\ lateCall = FALSE
    /\ InitOther

\* The same record enriched from the review list with one more review at its
\* end; before holds the record as enriched from the shorter list.
ReviewArrives ==
    /\ Len(Items[1].Reviews) < MaxReviews
    /\ \E review \in ReviewSet :
         Items' = <<EnrichRecord(Items[1].Issue, Append(Items[1].Reviews, review),
                                 lowercaseReviewers)>>
    /\ before' = Items
    /\ UNCHANGED << otherVars, pc, DraftOption, lowercaseReviewers, ctxDone, i,
                    attempts, err,
                    repo, result, outcome, history, callObs, passStatus, revFetch,
                    cancelRec, lateCall >>

NextFn == ReviewArrives

SpecFn == InitFn /\ [][NextFn]_vars

\* ------------------------------------------------------------- PRDisplay
\* A record whose Issue pointer is nil: Number 0 stands for the nil pointer.
NilIssue == [Number |-> 0, Login |-> ""]

IsNilIssue(issue) == issue.Number = 0

\* Issue.CreatedAt seen at rendering: missing, or so many hours ago.
NoCreatedAt == [known |-> FALSE, hours |-> 0]

HoursAgo(h) == [known |-> TRUE, hours |-> h]

AgesInHours == {24, 25, 720, 721}

CreatedAts == {NoCreatedAt} \cup {HoursAgo(h) : h \in AgesInHours}

\* One cell of a table row: its column, its text, and its number if it is one.
Cell(col, text, num) == [col |-> col, text |-> text, num |-> num]

\* Mutant: the draft test comes before the age test.
formatPRNumber_DraftFirst(prData, created) ==
    IF IsNilIssue(prData.Issue) THEN Cell("NUMBER", "N/A", 0)
    ELSE IF ~created.known THEN Cell("NUMBER", "plain", prData.Issue.Number)
    ELSE IF prData.IsDraft THEN Cell("NUMBER", "gray", prData.Issue.Number)
    ELSE IF created.hours > 30 * 24 THEN Cell("NUMBER", "red", prData.Issue.Number)
    ELSE IF created.hours <= 1 * 24 THEN Cell("NUMBER", "green", prData.Issue.Number)
    ELSE Cell("NUMBER", "plain", prData.Issue.Number)

\* formatPRNumber: the number and the colour it is wrapped in; daysOld is
\* hours / 24, so "daysOld > 30" is "hours > 30 * 24".
formatPRNumber(prData, created) ==
    IF IsNilIssue(prData.Issue) THEN Cell("NUMBER", "N/A", 0)
    ELSE IF ~created.known THEN Cell("NUMBER", "plain", prData.Issue.Number)
    ELSE IF created.hours > 30 * 24 THEN Cell("NUMBER", "red", prData.Issue.Number)
    ELSE IF prData.IsDraft THEN Cell("NUMBER", "gray", prData.Issue.Number)
    ELSE IF created.hours <= 1 * 24 THEN Cell("NUMBER", "green", prData.Issue.Number)
    ELSE Cell("NUMBER", "plain", prData.Issue.Number)

\* NewPRDisplay: Options.ShowDraft is always true.
ShowDraft == TRUE

\* formatTitle: the text is the prefix put before the title.
formatTitle(prData, showDraft) ==
    Cell("TITLE", IF prData.IsDraft /\ showDraft THEN "DRAFT: " ELSE "", 0)

getUserLogin(login) == IF login = "" THEN "unknown" ELSE login

\* Mutant: the DRAFT column of a row follows Options.ShowDraft.
tableRow_DraftByShowDraft(prData, option, showReviewer, created) ==
    << formatPRNumber(prData, created),
       formatTitle(prData, ShowDraft),
       Cell("AUTHOR", getUserLogin(prData.Issue.Login), 0),
       Cell("STATE", "", 0),
       Cell("REVIEWS", "", Len(prData.Reviews)) >>
    \o (IF ShowDraft
        THEN <<Cell("DRAFT", IF prData.IsDraft THEN "[X]" ELSE "[ ]", 0)>>
        ELSE <<>>)
    \o (IF showReviewer THEN <<Cell("REVIEWER", prData.ReviewerStatus, 0)>> ELSE <<>>)
    \o <<Cell("APPROVALS", "", prData.ApprovalCount)>>

\* appendTableRow: the row built for a record with an Issue.
tableRow(prData, option, showReviewer, created) ==
    << formatPRNumber(prData, created),
       formatTitle(prData, ShowDraft),
       Cell("AUTHOR", getUserLogin(prData.Issue.Login), 0),
       Cell("STATE", "", 0),
       Cell("REVIEWS", "", Len(prData.Reviews)) >>
    \o (IF option = "show"
        THEN <<Cell("DRAFT", IF prData.IsDraft THEN "[X]" ELSE "[ ]", 0)>>
        ELSE <<>>)
    \o (IF showReviewer THEN <<Cell("REVIEWER", prData.ReviewerStatus, 0)>> ELSE <<>>)
    \o <<Cell("APPROVALS", "", prData.ApprovalCount)>>

\* appendTableHeader
tableHeader(option, showReviewer) ==
    <<"NUMBER", "TITLE", "AUTHOR", "STATE", "REVIEWS">>
    \o (IF option = "show" THEN <<"DRAFT">> ELSE <<>>)
    \o (IF showReviewer THEN <<"REVIEWER">> ELSE <<>>)
    \o <<"APPROVALS">>

\* Mutant: a record without a fetched pull request gets no row either.
SkipsRow_Unfetched(prData) == IsNilIssue(prData.Issue) \/ prData.PullRequest.IsNil

\* appendTableRow returns at once for a record without an Issue.
SkipsRow(prData) == IsNilIssue(prData.Issue)

\* The loop of RenderTable over items.
RECURSIVE tableRows(_, _, _, _, _)
tableRows(items, option, showReviewer, created, k) ==
    IF k > Len(items) THEN <<>>
    ELSE (IF SkipsRow(items[k]) THEN <<>>
          ELSE <<tableRow(items[k], option, showReviewer, created[k])>>)
         \o tableRows(items, option, showReviewer, created, k + 1)

\* The records a displayed collection may hold: unfetched, fetched, enriched
\* with reviews, and one without an Issue.
DisplayRecords ==
    DetailedRecords
        \cup {NewRecord(NilIssue)}
        \cup {ApplyReviews(ResetReviewerStatus(ApplyDetail(NewRecord(Issue(1)), PR(FALSE))),
                           <<Rev("Alice", "APPROVED")>>, <<"alice">>)}

\* NewPRDisplay(collection).WithReviewers(b) on a collection that has been
\* through FetchIssues and the enrichment stages.
InitDisplay ==
    /\ pc = "idle"
    /\ repo = "owner/repo"
    /\ DraftOption \in {""} \cup DraftFlags
    /\ Items \in SeqsUpTo(DisplayRecords, MaxItems)
    /\ ctxDone = FALSE /\ i = 0 /\ attempts = 0 /\ err = "nil"
    /\ lowercaseReviewers = <<>> /\ result = <<>> /\ outcome = NoOutcome
    /\ history = <<"FetchIssues", "EnrichWithPullRequests", "EnrichWithReviews">>
    /\ trace = <<>> /\ traceOf = [stage |-> "none", idx |-> 0]
    /\ callDone = FALSE /\ resp = NoResp
    /\ before = <<>>
    /\ passStatus = NoneSeq(Len(Items)) /\ revFetch = NoneSeq(Len(Items))
    /\ cancelRec = <<0, 0>> /\ lateCall = FALSE
    /\ ShowReviewer \in BOOLEAN
    /\ rendered = FALSE /\ header = <<>> /\ rows = <<>> /\ createdAgo = <<>>
    /\ SpinnerIdle /\ ReviewIdle /\ AuthIdle

\* RenderTable(): the header, then one row per record; nothing is assigned to
\* the collection.
RenderTable ==
    /\ pc = "idle"
    /\ ~rendered
    /\ \E created \in [1..Len(Items) -> CreatedAts] :
         /\ createdAgo' = created
         /\ header' = tableHeader(DraftOption, ShowReviewer)
         /\ rows' = tableRows(Items, DraftOption, ShowReviewer, created, 1)
    /\ rendered' = TRUE
    /\ before' = Items
    /\ history' = Append(history, "RenderTable")
    /\ UNCHANGED << pc, collVars, cmdVars, loopVars, callObs, passStatus, revFetch,
                    cancelObs, ShowReviewer, spinVars, revVars, authVars >>

NextDisplay == RenderTable

SpecDisplay == InitDisplay /\ [][NextDisplay]_vars

\* --------------------------------------------------------- ui.WithSpinner
\* What fn may return.
FnResults == {Result(v, e) : v \in {"v1", "v2"}, e \in {"nil", "e1"}}

\* Mutant: done := make(chan result), without a buffer.
DoneCap_Unbuffered == 1 - 1

\* done := make(chan result, 1)
DoneCap == 1

\* Mutant: only the error of the received result is returned.
SelectResult_ErrOnly(res) == Result("zero", res.err)

\* case res := <-done: return res.value, res.err
SelectResult(res) == Result(res.value, res.err)

\* The program has ended: Run returns and p.Send becomes a no-op.
Ended(by) == [state |-> "ended", quit |-> prog.quit, endedBy |-> by, workerAt |-> wpc]

InitSpinner ==
    /\ pc = "idle"
    /\ repo = "owner/repo"
    /\ DraftOption = ""
    /\ InitCollection
    /\ DisplayIdle
    /\ mpc = "idle" /\ wpc = "idle" /\ prog = NewProgram
    /\ spinCtxDone \in BOOLEAN /\ done = <<>>
    /\ fnResult = NoResult /\ returned = NoResult
    /\ ReviewIdle /\ AuthIdle

\* WithSpinner is called: the goroutine is started and p.Run() is entered.
WithSpinner ==
    /\ mpc = "idle"
    /\ mpc' = "Run"
    /\ wpc' = "fn"
    /\ UNCHANGED << pipeVars, dispVars, revVars, authVars, prog, spinCtxDone, done, fnResult, returned >>

\* p.Run() starts the event loop.
ProgramStarts ==
    /\ mpc = "Run"
    /\ prog.state = "new"
    /\ prog' = [prog EXCEPT !.state = "running"]
    /\ UNCHANGED << pipeVars, dispVars, revVars, authVars, mpc, wpc, spinCtxDone, done, fnResult, returned >>

\* p.Run() returns an error, before or after the loop has started.
ProgramFails ==
    /\ mpc = "Run"
    /\ prog.state \in {"new", "running"}
    /\ prog' = Ended("error")
    /\ mpc' = "returned"
    /\ returned' = Result("zero", "failed to run spinner")
    /\ UNCHANGED << pipeVars, dispVars, revVars, authVars, wpc, spinCtxDone, done, fnResult >>

\* LoaderModel.Update on the key q or ctrl+c returns tea.Quit; Run returns nil.
UserQuits ==
    /\ mpc = "Run"
    /\ prog.state = "running"
    /\ \E key \in {"q", "ctrl+c"} : prog' = Ended(key)
    /\ mpc' = "select"
    /\ UNCHANGED << pipeVars, dispVars, revVars, authVars, wpc, spinCtxDone, done, fnResult, returned >>

\* The goroutine: fn returns.
FnReturns ==
    /\ wpc = "fn"
    /\ \E res \in FnResults : fnResult' = res
    /\ wpc' = "Send"
    /\ UNCHANGED << pipeVars, dispVars, revVars, authVars, mpc, prog, spinCtxDone, done, returned >>

\* The goroutine: p.Send(tea.Quit()) blocks until the program has started,
\* hands the message to a running loop, and is a no-op once the program ended.
SendQuit ==
    /\ wpc = "Send"
    /\ prog.state # "new"
    /\ prog' = IF prog.state = "running" THEN [prog EXCEPT !.quit = TRUE] ELSE prog
    /\ wpc' = "done<-"
    /\ UNCHANGED << pipeVars, dispVars, revVars, authVars, mpc, spinCtxDone, done, fnResult, returned >>

\* The event loop handles the Quit message: Run returns nil.
ProgramQuits ==
    /\ mpc = "Run"
    /\ prog.state = "running"
    /\ prog.quit
    /\ prog' = Ended("Send")
    /\ mpc' = "select"
    /\ UNCHANGED << pipeVars, dispVars, revVars, authVars, wpc, spinCtxDone, done, fnResult, returned >>

\* The goroutine: done <- result. The send completes when the buffer has room,
\* or when WithSpinner is waiting in its select and takes the value at once.
Deliver ==
    /\ wpc = "done<-"
    /\ IF Len(done) < DoneCap
       THEN /\ done' = Append(done, fnResult)
            /\ UNCHANGED << mpc, returned >>
       ELSE /\ mpc = "select"
            /\ mpc' = "returned"
            /\ returned' = SelectResult(fnResult)
            /\ done' = done
    /\ wpc' = "end"
    /\ UNCHANGED << pipeVars, dispVars, revVars, authVars, prog, spinCtxDone, fnResult >>

\* select: case res := <-done
SelectDone ==
    /\ mpc = "select"
    /\ done # <<>>
    /\ returned' = SelectResult(Head(done))
    /\ done' = Tail(done)
    /\ mpc' = "returned"
    /\ UNCHANGED << pipeVars, dispVars, revVars, authVars, wpc, prog, spinCtxDone, fnResult >>

\* select: case <-ctx.Done()
SelectCtx ==
    /\ mpc = "select"
    /\ spinCtxDone
    /\ returned' = Result("zero", "ctx.Err()")
    /\ mpc' = "returned"
    /\ UNCHANGED << pipeVars, dispVars, revVars, authVars, wpc, prog, spinCtxDone, done, fnResult >>

\* The caller's context is cancelled.
CancelSpinner ==
    /\ ~spinCtxDone
    /\ mpc # "idle"
    /\ spinCtxDone' = TRUE
    /\ UNCHANGED << pipeVars, dispVars, revVars, authVars, mpc, wpc, prog, done, fnResult, returned >>

NextSpinner ==
    \/ WithSpinner
    \/ ProgramStarts
    \/ ProgramFails
    \/ UserQuits
    \/ FnReturns
    \/ SendQuit
    \/ ProgramQuits
    \/ Deliver
    \/ SelectDone
    \/ SelectCtx
    \/ CancelSpinner

SpecSpinner == InitSpinner /\ [][NextSpinner]_vars

\* Both goroutines and the event loop keep being scheduled; nothing obliges
\* fn to return, the user to press a key, or the context to be cancelled.
SpecSpinnerFair ==
    /\ SpecSpinner
    /\ WF_vars(WithSpinner)
    /\ WF_vars(ProgramStarts)
    /\ WF_vars(ProgramQuits)
    /\ WF_vars(SendQuit)
    /\ WF_vars(Deliver)
    /\ WF_vars(SelectDone \/ SelectCtx)

\* ---------------------------------------- the review command (cmd/review.go)
\* Repository names as strings of characters, and the pull requests logged.
ReviewRepos == { <<"o", "/", "r">>, <<"o", "/", "r", "-", "1">> }

PRNumbers == {1, 11}

MaxLogged == 3

\* CURRENT_TIMESTAMP at the insertions, in half days.
Times == 0..MaxLogged

TicksPerDay == 2

\* Timestamp.Format("2006-01-02")
DateOf(ts) == ts \div TicksPerDay

Dates == {DateOf(ts) : ts \in Times}

\* strconv.Itoa and "%d" for a positive number.
RECURSIVE Itoa(_)
Itoa(n) ==
    LET digit == <<"0", "1", "2", "3", "4", "5", "6", "7", "8", "9">>[(n % 10) + 1]
    IN  IF n < 10 THEN <<digit>> ELSE Append(Itoa(n \div 10), digit)

\* fmt.Sprintf("%s-%d", review.Repo, review.PRNumber)
prKey(review) == review.Repo \o <<"-">> \o Itoa(review.PRNumber)

\* len(splitRepo(repo)): one part more than there are "/" in repo.
splitRepoLen(r) == 1 + Cardinality({k \in 1..Len(r) : r[k] = "/"})

Review(r, n, ts) == [Repo |-> r, PRNumber |-> n, Timestamp |-> ts]

\* view --log: LogReview inserts a row stamped with the current time; the
\* UNIQUE constraint rejects a second row for the same pull request and time.
LogReview ==
    /\ ~reviewRan
    /\ Len(reviewsTable) < MaxLogged
    /\ \E r \in ReviewRepos, n \in PRNumbers, ts \in Times :
         /\ reviewsTable # <<>> => ts >= reviewsTable[Len(reviewsTable)].Timestamp
         /\ \A k \in 1..Len(reviewsTable) : reviewsTable[k] # Review(r, n, ts)
         /\ reviewsTable' = Append(reviewsTable, Review(r, n, ts))
    /\ UNCHANGED << pipeVars, dispVars, spinVars, authVars, reviewRan, queried, processedPRs,
                    reviewRows >>

\* The rows a query of GetReviewsByDateRange selects.
Selected(tbl, filter, startDate, endDate) ==
    {k \in 1..Len(tbl) :
        /\ filter # <<>> => tbl[k].Repo = filter
        /\ DateOf(tbl[k].Timestamp) >= startDate
        /\ DateOf(tbl[k].Timestamp) <= endDate}

\* ORDER BY timestamp DESC: every order of the selected rows in which the
\* timestamps do not increase.
QueryResults(tbl, filter, startDate, endDate) ==
    LET sel == Selected(tbl, filter, startDate, endDate)
        n   == Cardinality(sel)
    IN  { [k \in 1..n |-> tbl[ord[k]]] :
            ord \in {f \in [1..n -> sel] :
                        /\ \A a, b \in 1..n : a # b => f[a] # f[b]
                        /\ \A a, b \in 1..n :
                              a < b => tbl[f[a]].Timestamp >= tbl[f[b]].Timestamp} }

\* Mutant: the map is never consulted.
AlreadyProcessed_Never(processed, review) == FALSE

\* if processedPRs[prKey] { continue }
AlreadyProcessed(processed, review) == prKey(review) \in processed

\* The row appended for a review: with the pull request's title, or with the
\* placeholder when it could not be fetched; the Repository column is there
\* only when no --repo filter was given.
ReviewRow(review, filter, fetched) ==
    [ number |-> Itoa(review.PRNumber),
      title  |-> IF fetched THEN "title" ELSE "[Unable to fetch PR]",
      date   |-> DateOf(review.Timestamp),
      repo   |-> IF filter # <<>> THEN <<>> ELSE review.Repo ]

\* The loop of reviewCmd.Run over the reviews.
RECURSIVE reviewLoop(_, _, _, _, _, _)
reviewLoop(revs, filter, unfetchable, k, processed, out) ==
    IF k > Len(revs) THEN [processed |-> processed, rows |-> out]
    ELSE IF AlreadyProcessed(processed, revs[k])
    THEN reviewLoop(revs, filter, unfetchable, k + 1, processed, out)
    ELSE IF splitRepoLen(revs[k].Repo) # 2
    THEN reviewLoop(revs, filter, unfetchable, k + 1,
                    processed \cup {prKey(revs[k])}, out)
    ELSE reviewLoop(revs, filter, unfetchable, k + 1,
                    processed \cup {prKey(revs[k])},
                    Append(out, ReviewRow(revs[k], filter,
                                          revs[k].PRNumber \notin unfetchable)))

\* The pull requests PullRequests.Get fails for, in one run of the command.
Unfetchable == { {}, {1} }

\* reviewCmd.Run: the query, then the loop that fills the table.
ReviewRun ==
    /\ ~reviewRan
    /\ \E filter \in {<<>>} \cup ReviewRepos, startDate \in Dates, endDate \in Dates,
          unfetchable \in Unfetchable :
         \E revs \in QueryResults(reviewsTable, filter, startDate, endDate) :
            LET run == reviewLoop(revs, filter, unfetchable, 1, {}, <<>>)
            IN  /\ queried' = revs
                /\ processedPRs' = run.processed
                /\ reviewRows' = run.rows
    /\ reviewRan' = TRUE
    /\ UNCHANGED << pipeVars, dispVars, spinVars, authVars, reviewsTable >>

InitReview ==
    /\ pc = "idle"
    /\ repo = "owner/repo"
    /\ DraftOption = ""
    /\ InitCollection
    /\ DisplayIdle /\ SpinnerIdle /\ ReviewIdle /\ AuthIdle

NextReview == LogReview \/ ReviewRun

SpecReview == InitReview /\ [][NextReview]_vars

\* ------------------------------------------------ auth set, loadEnvFile
\* The values given to the flags of auth set, as strings of characters.
FlagValues == { <<"a">>, <<"b">>, <<"a", "=">> }

MaxEnvLines == 3

\* fmt.Sprintf("KEY=%s\n", value): the line, without its newline.
EnvLine(key, value) == <<key, "=">> \o value

\* The lines one auth set appends: one per flag given, in the order
\* db-url, auth-token, username.
AuthSetLines(flags) ==
    (IF flags["GHI_DB_URL"] # <<>>
     THEN <<EnvLine("GHI_DB_URL", flags["GHI_DB_URL"])>> ELSE <<>>)
    \o (IF flags["GHI_AUTH_TOKEN"] # <<>>
        THEN <<EnvLine("GHI_AUTH_TOKEN", flags["GHI_AUTH_TOKEN"])>> ELSE <<>>)
    \o (IF flags["GHI_USERNAME"] # <<>>
        THEN <<EnvLine("GHI_USERNAME", flags["GHI_USERNAME"])>> ELSE <<>>)

\* authSetCmd.Run: at least one flag, and the lines appended to the file.
AuthSet ==
    /\ ~started
    /\ \E flags \in [EnvKeys -> FlagValues \cup {<<>>}] :
         /\ flags # NoEnv
         /\ Len(envFile) + Len(AuthSetLines(flags)) <= MaxEnvLines
         /\ envFile' = envFile \o AuthSetLines(flags)
         /\ given' = [key \in EnvKeys |->
                        IF flags[key] # <<>> THEN flags[key] ELSE given[key]]
    /\ UNCHANGED << pipeVars, dispVars, spinVars, revVars, started, osEnv, procEnv >>

\* strings.TrimSpace
RECURSIVE TrimLeft(_)
TrimLeft(str) ==
    IF str # <<>> /\ Head(str) = " " THEN TrimLeft(Tail(str)) ELSE str

RECURSIVE TrimRight(_)
TrimRight(str) ==
    IF str # <<>> /\ str[Len(str)] = " "
    THEN TrimRight(SubSeq(str, 1, Len(str) - 1)) ELSE str

TrimSpace(str) == TrimRight(TrimLeft(str))

\* strings.SplitN(line, "=", 2): the position of the first "=", 0 if none.
FirstEquals(line) ==
    IF \E k \in 1..Len(line) : line[k] = "="
    THEN CHOOSE k \in 1..Len(line) :
            line[k] = "=" /\ \A j \in 1..(k - 1) : line[j] # "="
    ELSE 0

\* The loop of loadEnvFile from line k on: a key is set only while it is empty
\* in the environment.
RECURSIVE loadEnvFile(_, _, _)
loadEnvFile(lines, env, k) ==
    IF k > Len(lines) THEN env
    ELSE LET line == lines[k]
             eq   == FirstEquals(line)
         IN  IF line = <<>> \/ Head(line) = "#" \/ eq = 0
             THEN loadEnvFile(lines, env, k + 1)
             ELSE LET key   == TrimSpace(SubSeq(line, 1, eq - 1))
                      value == TrimSpace(SubSeq(line, eq + 1, Len(line)))
                  IN  IF Len(key) = 1 /\ key[1] \in EnvKeys /\ env[key[1]] = <<>>
                      THEN loadEnvFile(lines, [env EXCEPT ![key[1]] = value], k + 1)
                      ELSE loadEnvFile(lines, env, k + 1)

\* A later process starts with some of the keys set in its environment and
\* runs loadEnvFile.
ProcessStart ==
    /\ ~started
    /\ \E os \in [EnvKeys -> {<<>>, <<"o">>}] :
         /\ osEnv' = os
         /\ procEnv' = loadEnvFile(envFile, os, 1)
    /\ started' = TRUE
    /\ UNCHANGED << pipeVars, dispVars, spinVars, revVars, envFile, given >>

InitAuth ==
    /\ pc = "idle"
    /\ repo = "owner/repo"
    /\ DraftOption = ""
    /\ InitCollection
    /\ DisplayIdle /\ SpinnerIdle /\ ReviewIdle /\ AuthIdle

NextAuth == AuthSet \/ ProcessStart

SpecAuth == InitAuth /\ [][NextAuth]_vars

\* =================================================================== claims
Stages == {"EnrichWithPullRequests", "EnrichWithReviews"}

\* The method called last ("none" before the first call).
LastCall == IF history = <<>> THEN "none" ELSE history[Len(history)]

\* The error kinds of the attempts of a wrapped call, and its sleeps.
Kinds(tr) == SelectSeq(tr, LAMBDA x : x # "sleep")

SleepCount(tr) == Len(tr) - Len(Kinds(tr))

AllRateLimited(tr) ==
    /\ Kinds(tr) # <<>>
    /\ \A p \in 1..Len(Kinds(tr)) : Kinds(tr)[p] = "ratelimit"

\* The derived fields as the specification defines them, from the reviews.
IsApprovedOrCommentedState(st) == st \in {"APPROVED", "COMMENTED"}

computeApprovalCount(reviews) ==
    Cardinality({k \in 1..Len(reviews) : reviews[k].State = "APPROVED"})

computeUniqueReviewers(reviews, authorLogin) ==
    { ToLower(reviews[k].Login) :
        k \in {j \in 1..Len(reviews) : IsApprovedOrCommentedState(reviews[j].State)} }
      \ {"", ToLower(authorLogin)}

computeReviewerMatch(reviews, filterLogins) ==
    \E k \in 1..Len(reviews), f \in 1..Len(filterLogins) :
        /\ ToLower(reviews[k].Login) = ToLower(filterLogins[f])
        /\ IsApprovedOrCommentedState(reviews[k].State)

DerivedMatchReviews(prData, filterLogins) ==
    /\ prData.ApprovalCount = computeApprovalCount(prData.Reviews)
    /\ prData.UniqueReviewers = computeUniqueReviewers(prData.Reviews, prData.Issue.Login)
    /\ (prData.ReviewerStatus = "[X]") = computeReviewerMatch(prData.Reviews, filterLogins)

\* C1: whenever no method is running, every record whose latest review fetch
\* succeeded has ApprovalCount, UniqueReviewers and the reviewer-matched status
\* equal to their recomputation from its Reviews, its author and the reviewer
\* filter of the latest EnrichWithReviews call, also after repeated calls.
C1_DerivedFieldsMatchRecomputation ==
    pc = "idle" =>
        \A k \in 1..Len(Items) :
            revFetch[k] = "ok" => DerivedMatchReviews(Items[k], lowercaseReviewers)

\* C2: no two records of Items carry the same issue number.
C2_NoDuplicateNumbers ==
    \A j, k \in 1..Len(Items) :
        j # k => Items[j].Issue.Number # Items[k].Issue.Number

\* What a finished wrapped call reported: the search's outcome carries an
\* error (or none); an enrichment stage is left with its err variable.
Reported == IF traceOf.stage = "search" THEN outcome.cause ELSE err

C4_NoCallAfterCancel == ~lateCall

\* C5: a wrapped call of an enrichment stage makes between 1 and 3 attempts
\* and sleeps at most twice; every sleep directly follows an attempt and is
\* followed by another attempt, so a finished call does not end with a sleep;
\* and a stage that returned has attempted the call for every record.
C5_AttemptsAndSleepsBounded ==
    /\ (traceOf.stage \in Stages) =>
          /\ Len(Kinds(trace)) \in 1..3
          /\ SleepCount(trace) <= 2
          /\ \A p \in 1..Len(trace) :
                trace[p] = "sleep" =>
                    /\ p > 1 /\ trace[p - 1] = "ratelimit"
                    /\ (p < Len(trace) \/ ~callDone)
                    /\ p < Len(trace) => trace[p + 1] # "sleep"
          /\ ~callDone => trace[Len(trace)] = "sleep"
    /\ (pc = "idle" /\ LastCall \in Stages) =>
          \A k \in 1..Len(Items) : passStatus[k] # "none"

C5_Witness ==
    /\ callDone
    /\ traceOf.stage = "EnrichWithReviews"
    /\ trace = <<"ratelimit", "sleep", "ratelimit", "sleep", "ratelimit">>

\* C6: a wrapped call rate-limited twice and then successful has slept exactly
\* twice and its record holds what the third attempt fetched: the detail with
\* its draft flag, or the reviews with the fields derived from them.
C6_ThirdAttemptSucceeds ==
    (callDone /\ Kinds(trace) = <<"ratelimit", "ratelimit", "nil">>) =>
        /\ SleepCount(trace) = 2
        /\ traceOf.stage \in Stages =>
              passStatus[traceOf.idx] = "ok"
        /\ traceOf.stage = "EnrichWithPullRequests" =>
              /\ Items[traceOf.idx].PullRequest = resp.pr
              /\ Items[traceOf.idx].IsDraft = resp.pr.Draft
              /\ Items[traceOf.idx].DraftStatus = IF resp.pr.Draft THEN "[X]" ELSE "[ ]"
        /\ traceOf.stage = "EnrichWithReviews" =>
              /\ Items[traceOf.idx].Reviews = resp.reviews
              /\ DerivedMatchReviews(Items[traceOf.idx], lowercaseReviewers)
        /\ traceOf.stage = "search" =>
              outcome.how = "ok" /\ pc = "idle"

C6_Witness ==
    /\ callDone
    /\ traceOf.stage = "EnrichWithReviews"
    /\ trace = <<"ratelimit", "sleep", "ratelimit", "sleep", "nil">>
    /\ Items[traceOf.idx].ApprovalCount = 2

\* C7: an attempt that returns an error other than a rate-limit error is the
\* last event of its call: no attempt and no sleep follows it.
C7_OtherErrorIsFinal ==
    \A p \in 1..Len(trace) :
        trace[p] = "other" => (p = Len(trace) /\ callDone)

C7_Witness ==
    /\ callDone
    /\ traceOf.stage = "EnrichWithPullRequests"
    /\ trace = <<"ratelimit", "sleep", "other">>

\* C8: an enrichment stage never changes the number of records, every record
\* before the one it is at has had its fetch, whatever the earlier fetches
\* gave, and when it returns every record has had its fetch.
C8_EveryRecordAttempted ==
    (LastCall \in Stages) =>
        /\ Len(Items) = Len(before)
        /\ pc \in Stages => \A k \in 1..(i - 1) : passStatus[k] # "none"
        /\ pc = "idle" => \A k \in 1..Len(Items) : passStatus[k] # "none"

C8_Witness ==
    /\ pc = "idle"
    /\ LastCall = "EnrichWithPullRequests"
    /\ passStatus = <<"failed", "ok">>

\* C9 (as stated): a record whose fetch failed in an enrichment stage has
\* every field as it was when the stage started.
C9_FailedRecordUnmodified ==
    (LastCall \in Stages) =>
        \A k \in 1..Len(Items) :
            passStatus[k] = "failed" => Items[k] = before[k]

\* C9 (amended): such a record has every field as it was when the stage
\* started, except that EnrichWithReviews has set its ReviewerStatus to "[ ]".
C9_FailedRecordKeepsAllButStatus ==
    (LastCall \in Stages) =>
        \A k \in 1..Len(Items) :
            passStatus[k] = "failed" =>
                IF LastCall = "EnrichWithPullRequests"
                THEN Items[k] = before[k]
                ELSE /\ Items[k].ReviewerStatus = "[ ]"
                     /\ [Items[k] EXCEPT !.ReviewerStatus = before[k].ReviewerStatus]
                           = before[k]

C9_Witness ==
    /\ LastCall = "EnrichWithReviews"
    /\ \E k \in 1..Len(Items) :
          /\ passStatus[k] = "failed"
          /\ Items[k].DraftStatus = "[X]"

NumbersOf(items) == [k \in 1..Len(items) |-> items[k].Issue.Number]

IssueNumbers(issues) == [k \in 1..Len(issues) |-> issues[k].Number]

\* s can be obtained from t by deleting elements of t.
RECURSIVE IsSubsequence(_, _)
IsSubsequence(s, t) ==
    IF s = <<>> THEN TRUE
    ELSE IF t = <<>> THEN FALSE
    ELSE IF Head(s) = Head(t) THEN IsSubsequence(Tail(s), Tail(t))
    ELSE IsSubsequence(s, Tail(t))

NonDrafts(items) == {k \in 1..Len(items) : ~items[k].IsDraft}

\* C12: in mode "hide", FilterDrafts leaves exactly the records whose IsDraft
\* is false, in their previous order.
C12_HideKeepsNonDrafts ==
    (LastCall = "FilterDrafts" /\ DraftOption = "hide") =>
        /\ Items = KeepAt(before, NonDrafts(before), 1)
        /\ \A k \in 1..Len(Items) : ~Items[k].IsDraft

C12_Witness ==
    /\ LastCall = "FilterDrafts"
    /\ DraftOption = "hide"
    /\ Len(before) = 2
    /\ before[1].IsDraft
    /\ ~before[2].IsDraft
    /\ Items = <<before[2]>>

\* C13: in mode "show", FilterDrafts leaves Items as it was.
C13_ShowIsNoOp ==
    (LastCall = "FilterDrafts" /\ DraftOption = "show") => Items = before

C13_Witness ==
    /\ LastCall = "FilterDrafts"
    /\ DraftOption = "show"
    /\ Len(Items) = 2
    /\ Items[1].IsDraft
    /\ ~Items[2].IsDraft

\* C16: IsDraft is true only on a record that holds a fetched PullRequest whose
\* draft flag is true; a record without a fetched detail is not a draft, and
\* FilterDrafts keeps every such record.
C16_UnfetchedIsNotDraft ==
    /\ \A k \in 1..Len(Items) :
           Items[k].IsDraft => (~Items[k].PullRequest.IsNil /\ Items[k].PullRequest.Draft)
    /\ LastCall = "FilterDrafts" =>
           \A k \in 1..Len(before) :
               before[k].PullRequest.IsNil =>
                   /\ ~before[k].IsDraft
                   /\ \E j \in 1..Len(Items) : Items[j] = before[k]

C16_Witness ==
    /\ LastCall = "FilterDrafts"
    /\ DraftOption = "hide"
    /\ Len(before) = 2
    /\ before[1].IsDraft
    /\ before[2].PullRequest.IsNil
    /\ Items = <<before[2]>>

\* The collection before FilterDrafts in the scenario of C20: #1 is fetched,
\* not a draft, approved by Alice and by one other reviewer; #2 is a fetched
\* draft without approvals; the reviewer filter is "alice", the mode "hide".
C20_Scenario ==
    /\ LastCall = "FilterDrafts"
    /\ DraftOption = "hide"
    /\ lowercaseReviewers = <<"alice">>
    /\ IssueNumbers(result) = <<1, 2>>
    /\ Len(before) = 2
    /\ before[1].PullRequest = PR(FALSE)
    /\ before[1].Reviews = <<Rev("Alice", "APPROVED"), Rev("bob", "APPROVED")>>
    /\ before[2].PullRequest = PR(TRUE)
    /\ \A k \in 1..Len(before[2].Reviews) : before[2].Reviews[k].State # "APPROVED"

\* C20: in that scenario the four stages leave exactly one record, #1, with the
\* reviewer matched and an approval count of 2.
C20_EndToEnd ==
    C20_Scenario =>
        /\ Len(Items) = 1
        /\ Items[1].Issue.Number = 1
        /\ Items[1].ReviewerStatus = "[X]"
        /\ Items[1].ApprovalCount = 2

C20_Witness ==
    /\ C20_Scenario
    /\ history = <<"FetchIssues", "EnrichWithPullRequests", "EnrichWithReviews",
                   "FilterDrafts">>
    /\ NumbersOf(Items) = <<1>>


\* C14 (as stated): a collection whose draft mode was never set is filtered as
\* in mode "hide".
C14_UnsetFiltersAsHide ==
    (LastCall = "FilterDrafts" /\ DraftOption = "") =>
        Items = FilterItems(before, "hide")

\* C15: a second FilterDrafts in the same mode changes nothing.
C15_FilterIdempotent ==
    (Len(history) >= 2
        /\ history[Len(history)] = "FilterDrafts"
        /\ history[Len(history) - 1] = "FilterDrafts")
    => Items = before

C15_Witness ==
    /\ Len(history) = 4
    /\ history[3] = "FilterDrafts"
    /\ history[4] = "FilterDrafts"
    /\ DraftOption = "hide"
    /\ Len(Items) = 2
    /\ Items = before


\* The review appended last, in the review-loop specification.
LastReview == Items[1].Reviews[Len(Items[1].Reviews)]

\* C17: the reviewer status is "[X]" exactly when some review by a login of the
\* filter, compared in lower case, has state APPROVED or COMMENTED; with an
\* empty filter it is never "[X]"; a further review never takes "[X]" back.
C17_ReviewerMatched ==
    \A k \in 1..Len(Items) :
        /\ (Items[k].ReviewerStatus = "[X]")
               = computeReviewerMatch(Items[k].Reviews, lowercaseReviewers)
        /\ lowercaseReviewers = <<>> => Items[k].ReviewerStatus # "[X]"
        /\ (Len(before) = Len(Items) /\ before[k].ReviewerStatus = "[X]")
               => Items[k].ReviewerStatus = "[X]"

C17_Witness ==
    /\ lowercaseReviewers = <<"alice">>
    /\ Len(Items) = 1
    /\ Items[1].Reviews = <<Rev("Alice", "COMMENTED"), Rev("alice", "CHANGES_REQUESTED")>>
    /\ before # <<>>
    /\ before[1].ReviewerStatus = "[X]"
    /\ Items[1].ReviewerStatus = "[X]"

\* C18: no login in UniqueReviewers equals the author's login when both are
\* lower-cased.
C18_AuthorNeverUnique ==
    \A k \in 1..Len(Items) :
        \A login \in Items[k].UniqueReviewers :
            ToLower(login) # ToLower(getPRAuthor(Items[k]))

C18_Witness ==
    /\ Len(Items) = 1
    /\ getPRAuthor(Items[1]) = "Alice"
    /\ Items[1].Reviews = <<Rev("alice", "APPROVED"), Rev("Alice", "COMMENTED")>>
    /\ Items[1].UniqueReviewers = {}

\* C19: one more review raises ApprovalCount by 1 when its state is exactly
\* APPROVED and leaves it unchanged otherwise.
C19_ApprovalPerEvent ==
    (before # <<>> /\ Len(Items) = 1 /\ Len(before) = 1
        /\ Len(Items[1].Reviews) = Len(before[1].Reviews) + 1)
    => Items[1].ApprovalCount
         = before[1].ApprovalCount + (IF LastReview.State = "APPROVED" THEN 1 ELSE 0)

C19_Witness ==
    /\ Len(Items) = 1
    /\ Items[1].Reviews = <<Rev("bob", "APPROVED"), Rev("bob", "APPROVED")>>
    /\ before # <<>>
    /\ before[1].ApprovalCount = 1
    /\ Items[1].ApprovalCount = 2


\* The row RenderTable gave to the record at position k of Items.
RowOf(k) == rows[Cardinality({j \in 1..k : ~IsNilIssue(Items[j].Issue)})]

\* The styling C21 prescribes for an age in hours and a draft flag.
StyleByPrecedence(hours, isDraft) ==
    IF hours > 720 THEN "red"
    ELSE IF isDraft THEN "gray"
    ELSE IF hours <= 24 THEN "green"
    ELSE "plain"

\* C21: the number of every rendered record whose creation time is known is
\* styled Stale (red) when older than 30 days, else draft (gray) when a draft,
\* else Fresh (green) when at most 1 day old, else plain.
C21_StalePrecedesDraftPrecedesFresh ==
    rendered =>
        \A k \in 1..Len(Items) :
            (~IsNilIssue(Items[k].Issue) /\ createdAgo[k].known) =>
                /\ RowOf(k)[1].num = Items[k].Issue.Number
                /\ RowOf(k)[1].text
                     = StyleByPrecedence(createdAgo[k].hours, Items[k].IsDraft)

C21_Witness ==
    /\ rendered
    /\ Len(Items) = 2
    /\ Items[1].IsDraft /\ createdAgo[1] = HoursAgo(721)
    /\ Items[2].IsDraft /\ createdAgo[2] = HoursAgo(24)
    /\ rows[1][1].text = "red"
    /\ rows[2][1].text = "gray"


\* What a stage leaves of a record whose wrapped call ended in an API error:
\* EnrichWithPullRequests nothing, EnrichWithReviews the reset status box.
AfterApiFailure(stage, prData) ==
    IF stage = "EnrichWithReviews" THEN ResetReviewerStatus(prData) ELSE prData

\* C22 (as stated): when a stage has returned after its context was cancelled
\* while it ran, a record it reached after the cancellation differs from what
\* an ordinary API failure of that record leaves; the records are all that the
\* stage returns or records.
C22_CancellationIsDistinct ==
    (pc = "idle" /\ LastCall \in Stages /\ ctxDone /\ cancelRec[1] = Len(history)) =>
        \A k \in 1..Len(Items) :
            k > cancelRec[2] => Items[k] # AfterApiFailure(LastCall, before[k])


\* An identifier of the form owner/repo: two parts around one "/", both named.
OwnerSlashRepo(r) ==
    /\ Len(RepoParts(r)) = 2
    /\ \A p \in 1..2 : RepoParts(r)[p] # ""

\* C23 (as stated): with a --repo value that is empty or not of the form
\* owner/repo the command issues no search, detail or review call.
C23_MalformedRepoNoNetwork ==
    ~OwnerSlashRepo(repo) =>
        /\ pc \in {"start", "exit"}
        /\ traceOf.stage = "none"
        /\ history = <<>>

\* What holds of the checks the command makes: an empty --repo, or one that
\* does not split into exactly two parts, ends the run before the search.
C23_RejectedRepoNoNetwork ==
    (repo = "" \/ SplitCount(repo) # 2) =>
        /\ pc \in {"start", "exit"}
        /\ traceOf.stage = "none"
        /\ history = <<>>
        /\ pc = "exit" => outcome.how = "fatal"


\* The order of the pipeline of the pr command.
Pipeline == <<"FetchIssues", "EnrichWithPullRequests", "EnrichWithReviews", "FilterDrafts">>

\* Every record of the stage that ran last has had its wrapped call finished.
StageFinished ==
    /\ pc = "idle"
    /\ Len(passStatus) = Len(Items)
    /\ \A k \in 1..Len(Items) : passStatus[k] \in {"ok", "failed"}

\* A method of the collection is entered in this step.
Enters(method) == history' # history /\ LastCall' = method

\* C24: the methods are called in pipeline order, each once; every call
\* observed belongs to the stage entered last; EnrichWithReviews is entered
\* only when EnrichWithPullRequests has finished every record, and
\* FilterDrafts only when EnrichWithReviews has.
C24_StagesInOrder ==
    /\ [](/\ Len(history) <= Len(Pipeline)
          /\ history = SubSeq(Pipeline, 1, Len(history))
          /\ pc \in Stages => pc = LastCall
          /\ traceOf.stage \in Stages => traceOf.stage = LastCall)
    /\ [][/\ Enters("EnrichWithReviews") =>
                (LastCall = "EnrichWithPullRequests" /\ StageFinished)
          /\ Enters("FilterDrafts") =>
                (LastCall = "EnrichWithReviews" /\ StageFinished)]_vars

C24_Witness ==
    /\ history = Pipeline
    /\ DraftOption = "show"
    /\ Len(Items) = 2
    /\ revFetch = <<"failed", "ok">>
    /\ Items[1].PullRequest.IsNil
    /\ ~Items[2].PullRequest.IsNil


\* The records of Items that have an Issue, in Items order.
WithIssue(items) == SelectSeq(items, LAMBDA prData : ~IsNilIssue(prData.Issue))

\* C25: RenderTable leaves Items as it found it and emits one row per record
\* that has an Issue, in Items order; a record without a fetched pull request
\* or without reviews has its row like any other.
C25_RenderingKeepsCollection ==
    rendered =>
        /\ Items = before
        /\ Len(rows) = Len(WithIssue(Items))
        /\ \A k \in 1..Len(rows) :
               /\ rows[k][1].num = WithIssue(Items)[k].Issue.Number
               /\ rows[k][3].text = getUserLogin(WithIssue(Items)[k].Issue.Login)
               /\ rows[k][Len(rows[k])].num = WithIssue(Items)[k].ApprovalCount

C25_Witness ==
    /\ rendered
    /\ Len(Items) = 2
    /\ IsNilIssue(Items[1].Issue)
    /\ Items[2] = NewRecord(Issue(2))
    /\ Len(rows) = 1
    /\ rows[1][1].num = 2


\* C26: when WithSpinner has returned, its context was not cancelled and Run
\* gave no error, fn has returned and WithSpinner returned fn's value and error.
C26_ReturnsResultOfFn ==
    (mpc = "returned" /\ ~spinCtxDone /\ prog.endedBy # "error") =>
        /\ wpc \in {"done<-", "end"}
        /\ fnResult \in FnResults
        /\ returned = fnResult

C26_Witness ==
    /\ mpc = "returned"
    /\ ~spinCtxDone
    /\ prog.endedBy = "q"
    /\ prog.workerAt = "fn"
    /\ fnResult = Result("v2", "e1")
    /\ returned = fnResult

\* fn has returned.
FnReturned == wpc \in {"Send", "done<-", "end"}

\* C27: once fn has returned, the goroutine gets past p.Send and its send on
\* done, and WithSpinner returns.
C27_WorkerDeliversAndReturns ==
    /\ FnReturned ~> (wpc = "end")
    /\ FnReturned ~> (mpc = "returned")

C27_Witness ==
    /\ wpc = "end"
    /\ mpc = "returned"
    /\ prog.endedBy = "error"
    /\ prog.workerAt = "fn"
    /\ done = <<fnResult>>
    /\ returned.err = "failed to run spinner"


\* The reviews returned by the query for the pull request of position k.
SamePR(k) ==
    {j \in 1..Len(queried) :
        /\ queried[j].Repo = queried[k].Repo
        /\ queried[j].PRNumber = queried[k].PRNumber}

\* The rows shown for the pull request of the review at position k.
RowsFor(k) ==
    {x \in 1..Len(reviewRows) :
        /\ reviewRows[x].number = Itoa(queried[k].PRNumber)
        /\ reviewRows[x].repo \in {<<>>, queried[k].Repo}}

\* C28: the review command shows at most one row for a repository and pull
\* request number, and that row carries the date of the first review of the
\* pair in the query's order, which is its latest review in the range.
C28_OneRowPerPullRequest ==
    reviewRan =>
        \A k \in 1..Len(queried) :
            /\ Cardinality(RowsFor(k)) <= 1
            /\ \A x \in RowsFor(k) :
                  /\ \A j \in SamePR(k) : reviewRows[x].date >= DateOf(queried[j].Timestamp)
                  /\ LET first == CHOOSE j \in SamePR(k) : \A m \in SamePR(k) : j <= m
                     IN  reviewRows[x].date = DateOf(queried[first].Timestamp)

C28_Witness ==
    /\ reviewRan
    /\ Len(queried) = 3
    /\ queried[1] = Review(<<"o", "/", "r">>, 11, 2)
    /\ queried[2] = Review(<<"o", "/", "r", "-", "1">>, 1, 1)
    /\ queried[3] = Review(<<"o", "/", "r">>, 11, 0)
    /\ Len(reviewRows) = 2
    /\ reviewRows[1].date = 1
    /\ reviewRows[1].repo = <<"o", "/", "r">>


\* C29 (as stated): a process started with a key unset in its environment has,
\* after loadEnvFile, the value the latest auth set gave for that key.
C29_LatestValueLoaded ==
    started =>
        \A key \in EnvKeys :
            (given[key] # <<>> /\ osEnv[key] = <<>>) => procEnv[key] = given[key]


\* The column names of a header or of a data row.
HasColumn(names, col) == \E c \in 1..Len(names) : names[c] = col

ColumnsOf(row) == [c \in 1..Len(row) |-> row[c].col]

\* C30: the header and every data row have the same columns in the same
\* order; DRAFT is among them exactly when DraftOption is "show" and REVIEWER
\* exactly when ShowReviewer is true.
C30_HeaderMatchesRows ==
    rendered =>
        /\ HasColumn(header, "DRAFT") <=> DraftOption = "show"
        /\ HasColumn(header, "REVIEWER") <=> ShowReviewer
        /\ \A k \in 1..Len(rows) :
               /\ Len(rows[k]) = Len(header)
               /\ ColumnsOf(rows[k]) = header

C30_Witness ==
    /\ rendered
    /\ DraftOption = ""
    /\ ShowReviewer
    /\ Len(rows) = 2
    /\ rows[1][1].num = 1
    /\ Items[1].IsDraft
    /\ header = <<"NUMBER", "TITLE", "AUTHOR", "STATE", "REVIEWS", "REVIEWER", "APPROVALS">>

====
